---- MODULE Spec2Model ----
(***************************************************************************)
(* The Checkout page of the storefront (src/checkOUT1.tsx), mounted at the *)
(* /checkout route (src/client/src/App.tsx): its form state, the required- *)
(* field validation, the empty-cart redirect and the payment-link handoff  *)
(* performed by handleSubmit.  One instance of the component is followed   *)
(* from its mount to its unmount, together with the handleSubmit           *)
(* invocations that are still suspended at an await when it unmounts.      *)
(*                                                                         *)
(* Strings that the code inspects character by character (field values,    *)
(* field identifiers) are sequences of one-character strings.              *)
(***************************************************************************)
EXTENDS Integers, Sequences, FiniteSets, TLC

VARIABLES
  route,         \* in-app location: the component is mounted iff "/checkout"
  href,          \* target assigned to window.location.href, NoNav before that
  cartItems,     \* cart context: the items of the cart
  formData,      \* useState: the ten form fields
  isProcessing,  \* useState
  animateTruck,  \* useState
  attempts,      \* handleSubmit invocations suspended at an await
  toasts,        \* toast() calls made by the handler that ran last
  lastEvent      \* the event that handler was run for

vars == <<route, href, cartItems, formData, isProcessing, animateTruck,
          attempts, toasts, lastEvent>>

(***************************************************************************)
(* Bounds                                                                  *)
(***************************************************************************)
\* Cap on the handleSubmit invocations suspended at once.
MaxAttempts == 2

(***************************************************************************)
(* Form state                                                              *)
(***************************************************************************)
FieldNames ==
  {"email", "firstName", "lastName", "phone", "address1", "address2",
   "city", "state", "postalCode", "country"}

EmptyForm == [f \in FieldNames |-> <<>>]

requiredFields ==
  <<"email", "firstName", "lastName", "phone", "address1",
    "city", "state", "postalCode", "country">>

\* The characters of each required field's identifier.
FieldChars ==
  [email      |-> <<"e","m","a","i","l">>,
   firstName  |-> <<"f","i","r","s","t","N","a","m","e">>,
   lastName   |-> <<"l","a","s","t","N","a","m","e">>,
   phone      |-> <<"p","h","o","n","e">>,
   address1   |-> <<"a","d","d","r","e","s","s","1">>,
   city       |-> <<"c","i","t","y">>,
   state      |-> <<"s","t","a","t","e">>,
   postalCode |-> <<"p","o","s","t","a","l","C","o","d","e">>,
   country    |-> <<"c","o","u","n","t","r","y">>]

\* Characters String.prototype.trim removes (those the model types).
Whitespace == {" ", "\t"}

RECURSIVE TrimStart(_)
TrimStart(s) ==
  IF s = <<>> THEN <<>>
  ELSE IF Head(s) \in Whitespace THEN TrimStart(Tail(s)) ELSE s

RECURSIVE TrimEnd(_)
TrimEnd(s) ==
  IF s = <<>> THEN <<>>
  ELSE IF s[Len(s)] \in Whitespace THEN TrimEnd(SubSeq(s, 1, Len(s) - 1)) ELSE s

Trim(s) == TrimEnd(TrimStart(s))

\* The capitals that occur in the field identifiers, with their lower case.
LowerOf == [N |-> "n", C |-> "c"]

IsUpper(c) == c \in DOMAIN LowerOf

ToLower(c) == IF IsUpper(c) THEN LowerOf[c] ELSE c

\* field.replace(/([A-Z])/g, " $1").toLowerCase()
RECURSIVE Humanize(_)
Humanize(s) ==
  IF s = <<>> THEN <<>>
  ELSE (IF IsUpper(Head(s)) THEN <<" ", ToLower(Head(s))>> ELSE <<ToLower(Head(s))>>)
       \o Humanize(Tail(s))

MissingFieldToast(field) ==
  [title       |-> "Error",
   description |-> <<"Please fill in the ">> \o Humanize(FieldChars[field]) \o <<" field.">>,
   variant     |-> "destructive"]

GenericErrorToast ==
  [title       |-> "Error",
   description |-> <<"Failed to generate payment link. Please try again.">>,
   variant     |-> "destructive"]

handleInputChange_Trimmed(prev, name, value) == [prev EXCEPT ![name] = Trim(value)]

\* The updater handed to setFormData: {...prev, [name]: value}
handleInputChange(prev, name, value) == [prev EXCEPT ![name] = value]

RECURSIVE validateLoop(_, _)
validateLoop(fd, i) ==
  IF i > Len(requiredFields) THEN [ok |-> TRUE, toasts |-> <<>>]
  ELSE IF Trim(fd[requiredFields[i]]) = <<>>
       THEN [ok |-> FALSE, toasts |-> <<MissingFieldToast(requiredFields[i])>>]
       ELSE validateLoop(fd, i + 1)

RECURSIVE validateLast(_, _)
validateLast(fd, i) ==
  IF i = 0 THEN [ok |-> TRUE, toasts |-> <<>>]
  ELSE IF Trim(fd[requiredFields[i]]) = <<>>
       THEN [ok |-> FALSE, toasts |-> <<MissingFieldToast(requiredFields[i])>>]
       ELSE validateLast(fd, i - 1)

validateForm_LastMissing(fd) == validateLast(fd, Len(requiredFields))

\* validateForm(): its return value and the toast() calls it makes.
validateForm(fd) == validateLoop(fd, 1)

isFormValid_NoTrim(fd) ==
  \A i \in 1..Len(requiredFields) : fd[requiredFields[i]] # <<>>

\* The useMemo over formData.
isFormValid(fd) ==
  \A i \in 1..Len(requiredFields) : Trim(fd[requiredFields[i]]) # <<>>

\* The disabled prop handed to TruckButton.
disabled == ~isFormValid(formData) \/ isProcessing

(***************************************************************************)
(* Cart and pricing                                                        *)
(***************************************************************************)
ItemA == [id |-> "a", price |-> 40, quantity |-> 1]
ItemB == [id |-> "b", price |-> 30, quantity |-> 2]
ItemFree == [id |-> "gift", price |-> 0, quantity |-> 1]

\* The carts the cart context moves between.
Carts == {<<>>, <<ItemFree>>, <<ItemA>>, <<ItemA, ItemB>>}

RECURSIVE getTotalPrice(_)
getTotalPrice(items) ==
  IF items = <<>> THEN 0
  ELSE Head(items).price * Head(items).quantity + getTotalPrice(Tail(items))

calculatePricing(sub) ==
  LET shipping == IF sub >= 100 THEN 0 ELSE 10
      tax      == sub \div 10
  IN  [shipping |-> shipping, tax |-> tax, total |-> sub + shipping + tax]

\* const subtotal = getTotalPrice()
subtotal == getTotalPrice(cartItems)

EmptyCartRedirect_Never(sub, r) == r

\* The effect on [subtotal, navigate]: the route after it has run.
EmptyCartRedirect(sub, r) == IF sub = 0 THEN "/cart" ELSE r

(***************************************************************************)
(* Payment handoff                                                         *)
(***************************************************************************)
NoNav == "none"
NoLink == "pending"
Undefined == "undefined"
Links == {"https://pay.example/abc", "https://pay.example/xyz"}

\* What the POST can come back with: a transport error (status 0), a
\* non-success status, or a success status with one of the body shapes.
Responses ==
  {[status |-> 0,   hasPaymentLink |-> FALSE, short_url |-> Undefined],
   [status |-> 500, hasPaymentLink |-> FALSE, short_url |-> Undefined],
   [status |-> 200, hasPaymentLink |-> FALSE, short_url |-> Undefined],
   [status |-> 200, hasPaymentLink |-> TRUE,  short_url |-> Undefined]}
  \cup {[status |-> 200, hasPaymentLink |-> TRUE, short_url |-> l] : l \in Links}

NoResp == [status |-> -1, hasPaymentLink |-> FALSE, short_url |-> Undefined]

\* axios rejects the promise unless the status is 2xx.
AxiosRejects(r) == ~(200 <= r.status /\ r.status < 300)

Event(kind) == [kind |-> kind, resp |-> NoResp]

Payload_NoSurname(fd, items) ==
  [totalAmount |-> calculatePricing(getTotalPrice(items)).total,
   cartItems   |-> items,
   userName    |-> fd["firstName"],
   userEmail   |-> fd["email"],
   userPhone   |-> fd["phone"],
   shippingAddress |->
     [address1 |-> fd["address1"], address2 |-> fd["address2"],
      city |-> fd["city"], state |-> fd["state"],
      postalCode |-> fd["postalCode"], country |-> fd["country"]]]

\* The body of the POST, built from the render's formData, cartItems and total.
Payload(fd, items) ==
  [totalAmount |-> calculatePricing(getTotalPrice(items)).total,
   cartItems   |-> items,
   userName    |-> fd["firstName"] \o <<" ">> \o fd["lastName"],
   userEmail   |-> fd["email"],
   userPhone   |-> fd["phone"],
   shippingAddress |->
     [address1 |-> fd["address1"], address2 |-> fd["address2"],
      city |-> fd["city"], state |-> fd["state"],
      postalCode |-> fd["postalCode"], country |-> fd["country"]]]

Mounted == route = "/checkout"

RemoveAt(s, i) == SubSeq(s, 1, i - 1) \o SubSeq(s, i + 1, Len(s))

HandleSubmit_NoBusyFlag ==
  LET v == validateForm(formData) IN
  /\ lastEvent' = Event("submit")
  /\ toasts' = v.toasts
  /\ IF ~v.ok
     THEN UNCHANGED <<isProcessing, animateTruck, attempts>>
     ELSE /\ animateTruck' = TRUE
          /\ UNCHANGED isProcessing
          /\ attempts' = Append(attempts,
                                [pc |-> "post", payload |-> Payload(formData, cartItems),
                                 link |-> NoLink])
  /\ UNCHANGED <<route, href, cartItems, formData>>

\* handleSubmit up to its first await: validation, the two state setters and
\* the POST, whose body is fixed here.
HandleSubmit ==
  LET v == validateForm(formData) IN
  /\ lastEvent' = Event("submit")
  /\ toasts' = v.toasts
  /\ IF ~v.ok
     THEN UNCHANGED <<isProcessing, animateTruck, attempts>>
     ELSE /\ animateTruck' = TRUE
          /\ isProcessing' = TRUE
          /\ attempts' = Append(attempts,
                                [pc |-> "post", payload |-> Payload(formData, cartItems),
                                 link |-> NoLink])
  /\ UNCHANGED <<route, href, cartItems, formData>>

ResponseArrives_NavigatesAtOnce(i, r) ==
  /\ href = NoNav
  /\ i \in DOMAIN attempts
  /\ attempts[i].pc = "post"
  /\ lastEvent' = [kind |-> "response", resp |-> r]
  /\ IF AxiosRejects(r) \/ ~r.hasPaymentLink
     THEN /\ toasts' = <<GenericErrorToast>>
          /\ animateTruck' = FALSE
          /\ isProcessing' = FALSE
          /\ attempts' = RemoveAt(attempts, i)
          /\ UNCHANGED href
     ELSE /\ toasts' = <<>>
          /\ href' = r.short_url
          /\ isProcessing' = FALSE
          /\ attempts' = RemoveAt(attempts, i)
          /\ UNCHANGED animateTruck
  /\ UNCHANGED <<route, cartItems, formData>>

ResponseArrives_NoFinally(i, r) ==
  /\ href = NoNav
  /\ i \in DOMAIN attempts
  /\ attempts[i].pc = "post"
  /\ lastEvent' = [kind |-> "response", resp |-> r]
  /\ IF AxiosRejects(r) \/ ~r.hasPaymentLink
     THEN /\ toasts' = <<GenericErrorToast>>
          /\ animateTruck' = FALSE
          /\ UNCHANGED isProcessing
          /\ attempts' = RemoveAt(attempts, i)
     ELSE /\ toasts' = <<>>
          /\ attempts' = [attempts EXCEPT ![i] = [@ EXCEPT !.pc = "delay",
                                                           !.link = r.short_url]]
          /\ UNCHANGED <<animateTruck, isProcessing>>
  /\ UNCHANGED <<route, href, cartItems, formData>>

\* The continuation of handleSubmit after `await axios.post`: on a rejection,
\* or when reading res.data.paymentLink.short_url throws, the catch and
\* finally blocks; otherwise the link is kept and the delay timer is started.
\* The setters do nothing once the component is unmounted.
ResponseArrives(i, r) ==
  /\ href = NoNav
  /\ i \in DOMAIN attempts
  /\ attempts[i].pc = "post"
  /\ lastEvent' = [kind |-> "response", resp |-> r]
  /\ IF AxiosRejects(r) \/ ~r.hasPaymentLink
     THEN /\ toasts' = <<GenericErrorToast>>
          /\ animateTruck' = FALSE
          /\ isProcessing' = FALSE
          /\ attempts' = RemoveAt(attempts, i)
     ELSE /\ toasts' = <<>>
          /\ attempts' = [attempts EXCEPT ![i] = [@ EXCEPT !.pc = "delay",
                                                           !.link = r.short_url]]
          /\ UNCHANGED <<animateTruck, isProcessing>>
  /\ UNCHANGED <<route, href, cartItems, formData>>

\* The continuation after the 1500 ms timer: window.location.href = link,
\* then the finally block.
TimerFires(i) ==
  /\ href = NoNav
  /\ i \in DOMAIN attempts
  /\ attempts[i].pc = "delay"
  /\ lastEvent' = Event("timer")
  /\ href' = attempts[i].link
  /\ isProcessing' = FALSE
  /\ attempts' = RemoveAt(attempts, i)
  /\ toasts' = <<>>
  /\ UNCHANGED <<route, cartItems, formData, animateTruck>>

(***************************************************************************)
(* Events                                                                  *)
(***************************************************************************)
\* The strings typed into a field: nothing, blanks only, a padded value.
AllInputs == {<<>>, <<" ">>, <<" ", "x", " ">>}

TypedInputs == {<<>>, <<" ", "x", " ">>}

\* onChange of an input of the mounted form.
ChangeEvent(name, value) ==
  /\ Mounted /\ href = NoNav
  /\ formData[name] # value
  /\ formData' = handleInputChange(formData, name, value)
  /\ toasts' = <<>>
  /\ lastEvent' = Event("change")
  /\ UNCHANGED <<route, href, cartItems, isProcessing, animateTruck, attempts>>

\* A submit control fires no submit event while it is disabled.
TruckButtonSubmits(isDisabled) == ~isDisabled

\* The user activates the submit control: onSubmit={handleSubmit}.
SubmitClick ==
  /\ Mounted /\ href = NoNav
  /\ TruckButtonSubmits(disabled)
  /\ Len(attempts) < MaxAttempts
  /\ HandleSubmit

\* A submit event dispatched on the form itself while the control is
\* disabled for an incomplete form.
SubmitOnIncomplete ==
  /\ Mounted /\ href = NoNav
  /\ ~isFormValid(formData)
  /\ Len(attempts) < MaxAttempts
  /\ HandleSubmit

\* The cart context changes under the mounted page: re-render, then the
\* redirect effect; a redirect unmounts the component and drops its state.
CartChange(items) ==
  /\ Mounted /\ href = NoNav
  /\ items # cartItems
  /\ cartItems' = items
  /\ route' = EmptyCartRedirect(getTotalPrice(items), route)
  /\ IF route' = "/checkout"
     THEN UNCHANGED <<formData, isProcessing, animateTruck>>
     ELSE /\ formData' = EmptyForm
          /\ isProcessing' = FALSE
          /\ animateTruck' = FALSE
  /\ toasts' = <<>>
  /\ lastEvent' = Event("cart")
  /\ UNCHANGED <<href, attempts>>

\* The user follows an in-app link to another route: the component unmounts.
Leave ==
  /\ Mounted /\ href = NoNav
  /\ route' = "/shop"
  /\ formData' = EmptyForm
  /\ isProcessing' = FALSE
  /\ animateTruck' = FALSE
  /\ toasts' = <<>>
  /\ lastEvent' = Event("leave")
  /\ UNCHANGED <<href, cartItems, attempts>>

\* The mount: initial state of the hooks, first render and first effect run.
Init ==
  /\ cartItems \in Carts
  /\ route = EmptyCartRedirect(getTotalPrice(cartItems), "/checkout")
  /\ href = NoNav
  /\ formData = EmptyForm
  /\ isProcessing = FALSE
  /\ animateTruck = FALSE
  /\ attempts = <<>>
  /\ toasts = <<>>
  /\ lastEvent = Event("mount")

Next ==
  \/ \E name \in FieldNames, value \in TypedInputs : ChangeEvent(name, value)
  \/ SubmitClick
  \/ \E i \in 1..MaxAttempts, r \in Responses : ResponseArrives(i, r)
  \/ \E i \in 1..MaxAttempts : TimerFires(i)
  \/ \E items \in Carts : CartChange(items)
  \/ Leave

Spec == Init /\ [][Next]_vars

\* The form state manager alone: field edits with every kind of input, and
\* submit events on incomplete forms.
NextForm ==
  \/ \E name \in FieldNames, value \in AllInputs : ChangeEvent(name, value)
  \/ SubmitOnIncomplete

SpecForm == Init /\ [][NextForm]_vars

(***************************************************************************)
(* Vocabulary of the properties, stated without the code's own operators.  *)
(***************************************************************************)
RequiredOrder ==
  <<"email", "firstName", "lastName", "phone", "address1",
    "city", "state", "postalCode", "country">>

\* Some character of s is not white space.
NonBlank(s) == \E i \in 1..Len(s) : s[i] \notin {" ", "\t"}

AllRequiredFilled(fd) == \A i \in 1..9 : NonBlank(fd[RequiredOrder[i]])

\* The first required field, in the stated order, that is blank.
FirstMissing(fd) ==
  RequiredOrder[CHOOSE i \in 1..9 :
                  /\ ~NonBlank(fd[RequiredOrder[i]])
                  /\ \A j \in 1..(i - 1) : NonBlank(fd[RequiredOrder[j]])]

\* How a notification names each field.
FieldLabel ==
  [email      |-> <<"e","m","a","i","l">>,
   firstName  |-> <<"f","i","r","s","t"," ","n","a","m","e">>,
   lastName   |-> <<"l","a","s","t"," ","n","a","m","e">>,
   phone      |-> <<"p","h","o","n","e">>,
   address1   |-> <<"a","d","d","r","e","s","s","1">>,
   city       |-> <<"c","i","t","y">>,
   state      |-> <<"s","t","a","t","e">>,
   postalCode |-> <<"p","o","s","t","a","l"," ","c","o","d","e">>,
   country    |-> <<"c","o","u","n","t","r","y">>]

HandoffUnchanged ==
  /\ isProcessing' = isProcessing
  /\ animateTruck' = animateTruck
  /\ attempts' = attempts
  /\ href' = href

(***************************************************************************)
(* C1  Validation completeness: validateForm() returns true, and           *)
(* isFormValid is true, exactly when each of the nine required fields is   *)
(* non-empty after trimming; the value of address2 changes neither result, *)
(* and the two checks agree.                                               *)
(***************************************************************************)
C1_ValidationCompleteness ==
  /\ validateForm(formData).ok = AllRequiredFilled(formData)
  /\ isFormValid(formData) = AllRequiredFilled(formData)
  /\ \A v \in AllInputs :
       LET fd == [formData EXCEPT !["address2"] = v] IN
       /\ validateForm(fd).ok = validateForm(formData).ok
       /\ isFormValid(fd) = isFormValid(formData)

\* A complete form whose address2 is blank, reached by editing.
C1_Witness ==
  /\ Mounted
  /\ AllRequiredFilled(formData)
  /\ formData["address2"] = <<" ">>
  /\ validateForm(formData).ok
  /\ isFormValid(formData)

(***************************************************************************)
(* C8  Validation gate: a submit event on a form with a blank required     *)
(* field issues no request, leaves isProcessing and animateTruck as they   *)
(* were, and produces exactly one destructive notification, naming the     *)
(* first blank field in the order email, firstName, lastName, phone,       *)
(* address1, city, state, postalCode, country.                             *)
(***************************************************************************)
C8_ValidationGate ==
  [][(lastEvent'.kind = "submit" /\ ~AllRequiredFilled(formData)) =>
       /\ HandoffUnchanged
       /\ formData' = formData
       /\ Len(toasts') = 1
       /\ toasts'[1].variant = "destructive"
       /\ toasts'[1].description =
            <<"Please fill in the ">> \o FieldLabel[FirstMissing(formData)] \o <<" field.">>
    ]_vars

\* A rejected submit with several blank fields, the first of which is not
\* the first field of the form.
C8_Witness ==
  /\ lastEvent.kind = "submit"
  /\ NonBlank(formData["email"])
  /\ ~NonBlank(formData["firstName"])
  /\ NonBlank(formData["lastName"])
  /\ ~NonBlank(formData["country"])
  /\ Len(toasts) = 1
  /\ attempts = <<>>
  /\ ~isProcessing

\* The handler that ran last was the continuation for response r.
Answered(ev, r) == ev.kind = "response" /\ ev.resp = r

\* A response the request is rejected with: no 2xx status.
Rejected(r) == r.status < 200 \/ r.status > 299

\* The attempts of the pre-state other than the i-th, in order.
Without(i) == [k \in 1..(Len(attempts) - 1) |-> IF k < i THEN attempts[k] ELSE attempts[k + 1]]

\* The failed-attempt outcome for the i-th attempt: the generic error
\* notification, indicator stopped, control re-enabled, no navigation, and
\* the attempt over.
FailedOutcome(i) ==
  /\ toasts' = <<[title |-> "Error",
                  description |-> <<"Failed to generate payment link. Please try again.">>,
                  variant |-> "destructive"]>>
  /\ attempts' = Without(i)
  /\ href' = href
  /\ Mounted => (~isProcessing' /\ ~animateTruck')

(***************************************************************************)
(* C2  Submission lifecycle, success: a submit of a valid form enters      *)
(* Submitting (isProcessing and animateTruck set, request pending); a      *)
(* response carrying paymentLink.short_url = L starts the delay without    *)
(* navigating or notifying; a browser navigation happens only when the     *)
(* delay of an answered attempt expires, goes to exactly that attempt's L, *)
(* and shows no notification; and the control stays disabled while the     *)
(* mounted page has an attempt under way.                                  *)
(***************************************************************************)
C2_SuccessLifecycle ==
  /\ []((Mounted /\ href = NoNav /\ attempts # <<>>) => (isProcessing /\ disabled))
  /\ [][(lastEvent'.kind = "submit" /\ AllRequiredFilled(formData)) =>
          /\ isProcessing' /\ animateTruck'
          /\ Len(attempts') = Len(attempts) + 1
          /\ attempts'[Len(attempts')].pc = "post"
          /\ \A k \in 1..Len(attempts) : attempts'[k] = attempts[k]
          /\ href' = href
          /\ toasts' = <<>>
       ]_vars
  /\ [][\A l \in Links :
          Answered(lastEvent', [status |-> 200, hasPaymentLink |-> TRUE, short_url |-> l]) =>
            /\ \E i \in 1..Len(attempts) :
                 /\ attempts[i].pc = "post"
                 /\ attempts' = [attempts EXCEPT ![i] = [pc |-> "delay",
                                                         payload |-> attempts[i].payload,
                                                         link |-> l]]
            /\ href' = href
            /\ toasts' = <<>>
            /\ isProcessing' = isProcessing
            /\ animateTruck' = animateTruck
       ]_vars
  /\ [][href' # href =>
          /\ href = NoNav
          /\ lastEvent'.kind = "timer"
          /\ \E i \in 1..Len(attempts) :
               /\ attempts[i].pc = "delay"
               /\ attempts[i].link = href'
               /\ attempts' = Without(i)
          /\ toasts' = <<>>
       ]_vars

\* The mounted page has navigated to the link its request was answered with.
C2_Witness ==
  /\ Mounted
  /\ lastEvent.kind = "timer"
  /\ href = "https://pay.example/abc"
  /\ attempts = <<>>
  /\ toasts = <<>>

(***************************************************************************)
(* C3  Submission lifecycle, failure: when the request is rejected         *)
(* (transport error or non-success status) an error notification is shown, *)
(* the indicator is stopped, the control is re-enabled, no navigation is   *)
(* triggered and the attempt is over; a mounted page with a complete form  *)
(* and no attempt under way accepts a new submit.                          *)
(***************************************************************************)
C3_FailureLifecycle ==
  /\ [][\A r \in Responses :
          (Answered(lastEvent', r) /\ Rejected(r)) =>
            \E i \in 1..Len(attempts) : attempts[i].pc = "post" /\ FailedOutcome(i)
       ]_vars
  /\ []((Mounted /\ href = NoNav /\ attempts = <<>> /\ AllRequiredFilled(formData))
          => (~disabled /\ ENABLED SubmitClick))

\* The mounted page right after a rejected request, its form still complete.
C3_Witness ==
  /\ Mounted
  /\ lastEvent.kind = "response"
  /\ lastEvent.resp.status = 500
  /\ Len(toasts) = 1
  /\ ~isProcessing /\ ~animateTruck
  /\ attempts = <<>>
  /\ href = NoNav
  /\ AllRequiredFilled(formData)

(***************************************************************************)
(* C4  Empty-cart guard: the checkout page is never shown with a subtotal  *)
(* of 0; whenever the subtotal becomes 0 under the mounted page, in any    *)
(* handoff state, the user is sent to the cart page and that step issues   *)
(* no request; and no request is ever issued with a subtotal of 0.         *)
(***************************************************************************)
C4_EmptyCartGuard ==
  /\ [](Mounted => subtotal # 0)
  /\ []((lastEvent.kind = "mount" /\ subtotal = 0) => (route = "/cart" /\ attempts = <<>>))
  /\ [][(Mounted /\ subtotal' = 0) => (route' = "/cart" /\ attempts' = attempts)]_vars
  /\ [][Len(attempts') > Len(attempts) => (subtotal # 0 /\ subtotal' # 0)]_vars

\* The cart was emptied while a request was pending: the user is on the
\* cart page.
C4_Witness ==
  /\ lastEvent.kind = "cart"
  /\ subtotal = 0
  /\ route = "/cart"
  /\ attempts # <<>>

C6_LateResponseDiscarded ==
  [][~Mounted => (href' = href /\ toasts' = <<>>)]_vars

(***************************************************************************)
(* C7  Malformed response is a failure: a response with a success status   *)
(* whose body lacks paymentLink, or whose paymentLink has no short_url     *)
(* string, takes the Submitting -> Failed transition: generic error        *)
(* notification, indicator stopped, control re-enabled, no navigation.     *)
(***************************************************************************)
C7_MalformedResponseFails ==
  [][\A r \in Responses :
       (Answered(lastEvent', r) /\ ~Rejected(r)
          /\ (~r.hasPaymentLink \/ r.short_url \notin Links)) =>
         \E i \in 1..Len(attempts) : attempts[i].pc = "post" /\ FailedOutcome(i)
    ]_vars

(***************************************************************************)
(* C9  setField frame: a field change event replaces exactly the named     *)
(* field with the given string, stored verbatim, and leaves every other    *)
(* field, isProcessing, animateTruck and the requests in flight unchanged, *)
(* in every handoff state.                                                 *)
(***************************************************************************)
C9_SetFieldFrame ==
  /\ [](\A n \in FieldNames, v \in AllInputs :
          LET fd == handleInputChange(formData, n, v) IN
          /\ DOMAIN fd = FieldNames
          /\ fd[n] = v
          /\ \A m \in FieldNames \ {n} : fd[m] = formData[m])
  /\ [][lastEvent'.kind = "change" =>
          /\ \E n \in FieldNames :
               /\ formData'[n] \in TypedInputs
               /\ formData'[n] # formData[n]
               /\ \A m \in FieldNames \ {n} : formData'[m] = formData[m]
          /\ HandoffUnchanged
          /\ cartItems' = cartItems
          /\ route' = route
       ]_vars

\* A field emptied, and another holding its padded value, while Submitting.
C9_Witness ==
  /\ Mounted
  /\ lastEvent.kind = "change"
  /\ isProcessing /\ animateTruck
  /\ Len(attempts) = 1
  /\ attempts[1].pc = "post"
  /\ formData["email"] = <<>>
  /\ formData["address2"] = <<" ", "x", " ">>

(***************************************************************************)
(* C10  Request snapshot consistency: every request handleSubmit issues    *)
(* carries the field values, cart items and total of the render whose      *)
(* form passed validation: the required fields it carries are non-blank,   *)
(* userName is firstName + " " + lastName, totalAmount is the total priced *)
(* from that render's subtotal; later edits and cart changes never alter   *)
(* a request already issued.                                               *)
(***************************************************************************)
PricedTotal(items) ==
  LET sub == getTotalPrice(items) IN sub + calculatePricing(sub).shipping + calculatePricing(sub).tax

C10_RequestSnapshot ==
  /\ [](\A k \in 1..Len(attempts) :
          LET p == attempts[k].payload IN
          /\ NonBlank(p.userEmail) /\ NonBlank(p.userPhone)
          /\ NonBlank(p.shippingAddress.address1) /\ NonBlank(p.shippingAddress.city)
          /\ NonBlank(p.shippingAddress.state) /\ NonBlank(p.shippingAddress.postalCode)
          /\ NonBlank(p.shippingAddress.country)
          /\ \E first, last \in AllInputs :
               NonBlank(first) /\ NonBlank(last) /\ p.userName = first \o <<" ">> \o last
          /\ p.totalAmount = PricedTotal(p.cartItems))
  /\ [][Len(attempts') > Len(attempts) =>
          LET p == attempts'[Len(attempts')].payload IN
          /\ AllRequiredFilled(formData)
          /\ p.userName = formData["firstName"] \o <<" ">> \o formData["lastName"]
          /\ p.userEmail = formData["email"]
          /\ p.userPhone = formData["phone"]
          /\ \A f \in {"address1", "address2", "city", "state", "postalCode", "country"} :
               p.shippingAddress[f] = formData[f]
          /\ p.cartItems = cartItems
          /\ p.totalAmount = PricedTotal(cartItems)
          /\ \A k \in 1..Len(attempts) : attempts'[k] = attempts[k]
       ]_vars
  /\ [][\A k \in 1..Len(attempts') :
          \/ \E j \in 1..Len(attempts) : attempts'[k].payload = attempts[j].payload
          \/ (k = Len(attempts') /\ Len(attempts') > Len(attempts))
       ]_vars

\* A pending request whose payload differs from the form and the cart the
\* page now shows.
C10_Witness ==
  /\ Mounted
  /\ Len(attempts) = 1
  /\ attempts[1].payload.userEmail # formData["email"]
  /\ attempts[1].payload.cartItems # cartItems
  /\ attempts[1].payload.shippingAddress.address2 # formData["address2"]

====
